---- MODULE Spec2Model ----
(***************************************************************************)
(* WebFsChunkStore (src/index.js): a chunk store over the File System      *)
(* Access API.  The store is modelled as a state machine on top of a       *)
(* JavaScript event loop: a call runs its synchronous part atomically, a   *)
(* continuation after `await` is a separate step, and continuations of     *)
(* settled promises and queued microtasks run before the provider          *)
(* completes any further operation.                                        *)
(*                                                                         *)
(* The provider (directories, files, writable streams) completes each      *)
(* operation with success or failure.  A writable stream buffers its       *)
(* writes and commits them to the file when it is closed; a file read      *)
(* sees committed content only; operations on removed entries are          *)
(* rejected; removeEntry completes after the operations issued earlier on  *)
(* the same directory.                                                     *)
(*                                                                         *)
(* Spec and SpecGet run the store over files declared without '/', for     *)
(* which _getDirectoryHandle returns storageDirPromise; SpecDir constructs *)
(* and closes a store whose files share one subdirectory; SpecCtor runs    *)
(* the constructor alone over bounded arguments.  The `pagehide` listener  *)
(* is not part of the model.                                               *)
(***************************************************************************)
EXTENDS Integers, Sequences, FiniteSets, TLC

\* ------------------------------------------------------------------ bounds
MaxCalls == 2
MaxIndex == 2
MaxFaults == 1
MaxPending == 1

\* ------------------------------------------------- construction arguments
ChunkLength == 3
LengthA == 2
LengthB == 3

Indices == 0..MaxIndex

\* opts.files of the multi-file store: two files declared without `offset`
Layout == << [path |-> "A", length |-> LengthA], [path |-> "B", length |-> LengthB] >>

\* opts.files with both files in one subdirectory
LayoutDir == << [path |-> "d/A", length |-> LengthA], [path |-> "d/B", length |-> LengthB] >>

\* path.slice(0, path.lastIndexOf('/')) of the declared paths, "" without '/'
DirOf(path) == IF path \in {"d/A", "d/B"} THEN "d" ELSE ""
\* the directory paths of the declared files
Dirs == {"d"}

\* ------------------------------------------------------------ constructor
RECURSIVE SumLengths(_)
SumLengths(fs) ==
  IF fs = << >> THEN 0 ELSE fs[Len(fs)].length + SumLengths(SubSeq(fs, 1, Len(fs) - 1))

\* file.offset when unspecified: previous offset + previous length
RECURSIVE FileOffset(_, _)
FileOffset(fs, i) ==
  IF i = 1 THEN 0 ELSE FileOffset(fs, i - 1) + fs[i - 1].length

\* the records file i pushes, for p = firstChunk..lastChunk
RECURSIVE FileRecords(_, _, _, _, _)
FileRecords(i, fileStart, fileEnd, p, lastChunk) ==
  IF p > lastChunk THEN << >>
  ELSE LET chunkStart == p * ChunkLength
           chunkEnd == chunkStart + ChunkLength
           from == IF fileStart < chunkStart THEN 0 ELSE fileStart - chunkStart
           to == IF fileEnd > chunkEnd THEN ChunkLength ELSE fileEnd - chunkStart
           offset == IF fileStart > chunkStart THEN 0 ELSE chunkStart - fileStart
       IN << [p |-> p, from |-> from, to |-> to, offset |-> offset, file |-> i] >>
            \o FileRecords(i, fileStart, fileEnd, p + 1, lastChunk)

\* all records in push order (files in declaration order, chunks ascending)
RECURSIVE AllRecords(_, _)
AllRecords(fs, i) ==
  IF i > Len(fs) THEN << >>
  ELSE LET fileStart == FileOffset(fs, i)
           fileEnd == fileStart + fs[i].length
           firstChunk == fileStart \div ChunkLength
           lastChunk == (fileEnd - 1) \div ChunkLength
       IN FileRecords(i, fileStart, fileEnd, firstChunk, lastChunk) \o AllRecords(fs, i + 1)

RECURSIVE SelectChunk(_, _)
SelectChunk(recs, p) ==
  IF recs = << >> THEN << >>
  ELSE (IF Head(recs).p = p
        THEN << [from |-> Head(recs).from, to |-> Head(recs).to,
                 offset |-> Head(recs).offset, file |-> Head(recs).file] >>
        ELSE << >>) \o SelectChunk(Tail(recs), p)

\* this.chunkMap; << >> stands for an undefined entry
BuildChunkMap(fs) == [p \in Indices |-> SelectChunk(AllRecords(fs, 1), p)]

\* this.length; 0 stands for Infinity
StoreLength(fs, optLength) == IF fs # << >> THEN SumLengths(fs) ELSE optLength

\* this.lastChunkLength, this.lastChunkIndex; -1 stands for undefined
LastChunkLength(length) ==
  IF length = 0 THEN -1
  ELSE IF length % ChunkLength # 0 THEN length % ChunkLength ELSE ChunkLength
LastChunkIndex(length) ==
  IF length = 0 THEN -1 ELSE ((length + ChunkLength - 1) \div ChunkLength) - 1

\* --------------------------------------------------------------- the state
VARIABLES
  files,        \* this.files: the declared files, << >> without opts.files/opts.rootDir
  length,       \* this.length, 0 for Infinity
  closed,       \* this.closed
  chunks,       \* this.chunks: index -> id of the chunk's fileHandlePromise, 0 when absent
  chunkMap,     \* this.chunkMap
  directoryMap, \* this.directoryMap: directory path -> the file whose call stored its promise, 0 when absent
  storageDir,   \* this.storageDirPromise
  chunksDir,    \* the promise of _getChunksDirHandle (multi-file store)
  fileHandle,   \* file.handle of every declared file
  handles,      \* the fileHandlePromise objects created by _getChunk
  fileStream,   \* file.stream of every declared file: id of a stream promise, 0 when unset
  streams,      \* the writable streams created on declared files
  chunkFile,    \* provider: committed content of the file named after each chunk index
  fileData,     \* provider: committed content of every declared file
  rootRemoved,  \* provider: the directory `name` was removed
  chunksRemoved, \* provider: the directory `chunks` was removed
  faults,       \* provider: number of operations that failed so far
  persisted,    \* provider: an earlier session left content in storage
  calls         \* the put/get/close/destroy calls issued so far

vars == << files, length, closed, chunks, chunkMap, directoryMap, storageDir, chunksDir, fileHandle,
           handles, fileStream, streams, chunkFile, fileData, rootRemoved, chunksRemoved,
           faults, persisted, calls >>

storeVars == << files, length, closed, chunks, chunkMap, directoryMap, fileStream >>
providerVars == << storageDir, chunksDir, fileHandle, handles, streams, chunkFile,
                   fileData, rootRemoved, chunksRemoved, faults, persisted >>

\* ------------------------------------------------------------------- values
Null == [kind |-> "null", n |-> 0]
ErrClosed == [kind |-> "closed", n |-> 0]          \* 'Storage is closed'
ErrNoMatch == [kind |-> "nomatch", n |-> 0]        \* 'No files matching the request range'
ErrIO == [kind |-> "io", n |-> 0]                  \* an error raised by the provider
ErrLength(n) == [kind |-> "length", n |-> n]       \* 'Chunk length must be n'
ErrLastLength(n) == [kind |-> "lastlength", n |-> n] \* 'Last chunk length must be n'
ErrNotFound(i) == [kind |-> "notFound", n |-> i]   \* err.notFound = true
EmptyBuffer == [kind |-> "buffer", n |-> 0]        \* a Uint8Array(0) passed as first argument

Junk == -1        \* the bytes of an Error object put into a Blob
NoData == << -2 >> \* the second callback argument left out

\* the bytes a caller puts: position k of the buffer holds 10 + k
Buf(n) == [k \in 1..n |-> 10 + k]
\* content left in storage by an earlier session: stream position s holds s + 1
StreamBytes(start, n) == [k \in 1..n |-> start + k]

\* a put that takes no index for the last chunk
IsLastChunk_Never(index) == FALSE

IsLastChunk(index) == index = LastChunkIndex(length)

\* Blob.slice(start, end): clamped to the blob's size
BlobSlice(data, start, end) ==
  LET s == IF start > Len(data) THEN Len(data) ELSE start
      e == IF end > Len(data) THEN Len(data) ELSE end
  IN IF e <= s THEN << >> ELSE SubSeq(data, s + 1, e)

\* writing `data` at `position` of a stream's buffer, zero bytes filling a gap
WriteAt(buf, position, data) ==
  LET n == IF position + Len(data) > Len(buf) THEN position + Len(data) ELSE Len(buf)
  IN [k \in 1..n |->
        IF k > position /\ k <= position + Len(data) THEN data[k - position]
        ELSE IF k <= Len(buf) THEN buf[k] ELSE 0]

\* ------------------------------------------------------------- construction
PersistedChunk(len, i) ==
  LET last == LastChunkIndex(len)
  IN IF len = 0 THEN StreamBytes(i * ChunkLength, ChunkLength)
     ELSE IF i > last THEN << >>
     ELSE IF i = last THEN StreamBytes(i * ChunkLength, LastChunkLength(len))
     ELSE StreamBytes(i * ChunkLength, ChunkLength)

Init ==
  /\ files \in { << >>, Layout }
  /\ \E optLength \in {0, LengthA + LengthB} : length = StoreLength(files, optLength)
  /\ closed = FALSE
  /\ chunks = [i \in Indices |-> 0]
  /\ chunkMap = BuildChunkMap(files)
  /\ directoryMap = [d \in Dirs |-> 0]
  /\ storageDir = "pending"
  /\ chunksDir = "wait"
  /\ fileHandle = [f \in 1..Len(files) |-> "wait"]
  /\ handles = << >>
  /\ fileStream = [f \in 1..Len(files) |-> 0]
  /\ streams = << >>
  /\ persisted \in BOOLEAN
  /\ chunkFile = [i \in Indices |->
                    IF persisted /\ files = << >> THEN PersistedChunk(length, i) ELSE << >>]
  /\ fileData = [f \in 1..Len(files) |->
                    IF persisted THEN StreamBytes(FileOffset(files, f), files[f].length)
                    ELSE << >>]
  /\ rootRemoved = FALSE
  /\ chunksRemoved = FALSE
  /\ faults = 0
  /\ calls = << >>

\* --------------------------------------------------------------- event loop
Multi == files # << >>
Settled(p) == p \in {"ok", "err"}

\* this.chunksDirPromise: the `chunks` directory of a multi-file store, else the storage directory
ChunksDirPromise == IF Multi THEN chunksDir ELSE storageDir

\* the provider rejects operations on entries that were removed
ChunkGone == rootRemoved \/ (Multi /\ chunksRemoved)
FileGone == rootRemoved

\* the outcomes the provider can give an operation on an existing entry
Outcomes(gone) ==
  IF gone THEN {"err"} ELSE {"ok"} \cup (IF faults < MaxFaults THEN {"err"} ELSE {})
Charge(outcome, gone) ==
  faults' = IF outcome = "err" /\ ~gone THEN faults + 1 ELSE faults

CallIds == 1..Len(calls)
Cb(err, data) == [err |-> err, data |-> data]

\* the ids of the calls whose callback has already reported success
Succeeded == { c \in CallIds : \E k \in 1..Len(calls[c].cbs) : calls[c].cbs[k].err = Null }

NewCall(op, index, buf, off, len) ==
  [op |-> op, index |-> index, buf |-> buf, off |-> off, len |-> len,
   pc |-> "none", h |-> 0, snap |-> << >>, subs |-> << >>, join |-> "none",
   mt |-> << >>, cbs |-> << >>, threw |-> FALSE, io |-> 0,
   td |-> "none", tf |-> 0, dpc |-> "none",
   open |-> ~closed, prior |-> Succeeded, faultsAt |-> faults]

SubRunnable(s) ==
  \/ s.pc = "awaitFileHandle" /\ Settled(fileHandle[s.file])
  \/ s.pc = "awaitStream" /\ Settled(streams[s.sid].st)
  \/ s.pc = "writeRejected"

AllSubsDone(call) == \A k \in 1..Len(call.subs) : call.subs[k].pc = "done"

\* a continuation or queued microtask of the call is ready to run
Runnable(call) ==
  \/ call.mt # << >>
  \/ call.pc = "awaitChunk"
  \/ call.pc = "awaitDir" /\ Settled(ChunksDirPromise)
  \/ call.pc = "awaitHandle" /\ Settled(handles[call.h])
  \/ \E k \in 1..Len(call.subs) : SubRunnable(call.subs[k])
  \/ call.join = "pending" /\ AllSubsDone(call)
  \/ call.td = "awaitStream" /\ Settled(streams[call.h].st)
  \/ call.td = "awaitStorageDir" /\ Settled(storageDir)
  \/ call.dpc = "awaitRoot"

ConstructionRunnable ==
  /\ Settled(storageDir)
  /\ \/ Multi /\ chunksDir = "wait"
     \/ \E f \in 1..Len(files) : fileHandle[f] \in {"wait", "awaitParent", "dirOk", "dirErr"}

\* the provider completes an operation in a task of its own: the microtask
\* queue is empty by then
Idle == ~ConstructionRunnable /\ \A c \in CallIds : ~Runnable(calls[c])

\* the caller issues a call while fewer than MaxPending of its earlier calls
\* wait for their first callback, and at most MaxCalls calls in all
Pending == { c \in CallIds : calls[c].cbs = << >> /\ ~calls[c].threw }
CanCall == Len(calls) < MaxCalls /\ Cardinality(Pending) < MaxPending

\* ---------------------------------------------- construction, continued
\* _getStorageDirectoryHandle: rootDir.getDirectoryHandle(name, { create: true }) completes
StorageDirSettle ==
  /\ storageDir = "pending" /\ Idle
  /\ \E o \in Outcomes(FALSE) : storageDir' = o /\ Charge(o, FALSE)
  /\ UNCHANGED << storeVars, chunksDir, fileHandle, handles, streams, chunkFile, fileData,
                  rootRemoved, chunksRemoved, calls, persisted >>

\* _getChunksDirHandle resumes after `await this.storageDirPromise`
ChunksDirResume ==
  /\ Multi /\ chunksDir = "wait" /\ Settled(storageDir)
  /\ chunksDir' = IF storageDir = "ok" THEN "pending" ELSE "err"
  /\ UNCHANGED << storeVars, storageDir, fileHandle, handles, streams, chunkFile, fileData,
                  rootRemoved, chunksRemoved, faults, calls, persisted >>

\* storageDir.getDirectoryHandle('chunks', { create: true }) completes
ChunksDirSettle ==
  /\ chunksDir = "pending" /\ Idle
  /\ \E o \in Outcomes(rootRemoved) : chunksDir' = o /\ Charge(o, rootRemoved)
  /\ UNCHANGED << storeVars, storageDir, fileHandle, handles, streams, chunkFile, fileData,
                  rootRemoved, chunksRemoved, calls, persisted >>

\* _createFileHandle resumes after `await this._getDirectoryHandle(opts)`
FileHandleResume(f) ==
  /\ fileHandle[f] = "wait" /\ Settled(storageDir)
  /\ fileHandle' = [fileHandle EXCEPT ![f] = IF storageDir = "ok" THEN "pending" ELSE "err"]
  /\ UNCHANGED << storeVars, storageDir, chunksDir, handles, streams, chunkFile, fileData,
                  rootRemoved, chunksRemoved, faults, calls, persisted >>

\* getFileHandle(fileName, { create: true }) of a declared file completes
FileHandleSettle(f) ==
  /\ fileHandle[f] = "pending" /\ Idle
  /\ \E o \in Outcomes(FileGone) :
       fileHandle' = [fileHandle EXCEPT ![f] = o] /\ Charge(o, FileGone)
  /\ UNCHANGED << storeVars, storageDir, chunksDir, handles, streams, chunkFile, fileData,
                  rootRemoved, chunksRemoved, calls, persisted >>

\* ------------------------------------------- construction: subdirectories
\* file.handle of a file in a subdirectory, as the constructor leaves it:
\* _getDirectoryHandle has looked the path up in this.directoryMap, which holds
\* `map` while the constructor runs, and waits at `await parent`
FileHandleStart(map, path) ==
  IF DirOf(path) = "" THEN "wait"
  ELSE IF map[DirOf(path)] = 0 THEN "awaitParent" ELSE "awaitMapped"

\* _getDirectoryHandle resumes after `await parent`:
\* this.directoryMap[path] = parent.getDirectoryHandle(name, { create: true })
DirResume(f) ==
  /\ fileHandle[f] = "awaitParent" /\ Settled(storageDir)
  /\ IF storageDir = "ok"
     THEN /\ directoryMap' = [directoryMap EXCEPT ![DirOf(files[f].path)] = f]
          /\ fileHandle' = [fileHandle EXCEPT ![f] = "dirPending"]
     ELSE /\ fileHandle' = [fileHandle EXCEPT ![f] = "err"]
          /\ UNCHANGED directoryMap
  /\ UNCHANGED << files, length, closed, chunks, chunkMap, fileStream, storageDir, chunksDir,
                  handles, streams, chunkFile, fileData, rootRemoved, chunksRemoved, faults,
                  calls, persisted >>

\* getDirectoryHandle(name, { create: true }) asked for file f completes
DirSettle(f) ==
  /\ fileHandle[f] = "dirPending" /\ Idle
  /\ \E o \in Outcomes(rootRemoved) :
       /\ fileHandle' = [fileHandle EXCEPT ![f] = IF o = "ok" THEN "dirOk" ELSE "dirErr"]
       /\ Charge(o, rootRemoved)
  /\ UNCHANGED << storeVars, storageDir, chunksDir, handles, streams, chunkFile, fileData,
                  rootRemoved, chunksRemoved, calls, persisted >>

\* _createFileHandle resumes after `await this._getDirectoryHandle(opts)` with
\* the subdirectory: getFileHandle(fileName, { create: true })
FileHandleDirReady(f) ==
  /\ fileHandle[f] \in {"dirOk", "dirErr"}
  /\ fileHandle' = [fileHandle EXCEPT ![f] = IF fileHandle[f] = "dirOk" THEN "pending" ELSE "err"]
  /\ UNCHANGED << storeVars, storageDir, chunksDir, handles, streams, chunkFile, fileData,
                  rootRemoved, chunksRemoved, faults, calls, persisted >>

\* the getDirectoryHandle calls made so far for directory d, by the file they were made for
DirectoryCalls(d) ==
  { f \in 1..Len(files) :
      DirOf(files[f].path) = d /\ storageDir = "ok" /\ fileHandle[f] # "awaitParent" }

\* ---------------------------------------------------------------------- put
\* the synchronous part of _getChunk(index), called from the async closure
StartChunkTask(call) ==
  IF chunks[call.index] # 0
  THEN [call EXCEPT !.pc = "awaitChunk", !.h = chunks[call.index]]
  ELSE [call EXCEPT !.pc = "awaitDir"]

\* the state of one per-target closure of put, up to its first await
PutSub(target) ==
  [from |-> target.from, to |-> target.to, offset |-> target.offset, file |-> target.file,
   pc |-> IF fileStream[target.file] = 0 THEN "awaitFileHandle" ELSE "awaitStream",
   sid |-> fileStream[target.file], val |-> << >>, failed |-> FALSE]

\* the multi-file part of put: targets lookup and fan-out
PutFanOut(call) ==
  LET targets == chunkMap[call.index]
  IN IF targets = << >>
     THEN [call EXCEPT !.mt = << ErrNoMatch >>, !.threw = TRUE]
     ELSE [call EXCEPT !.subs = [k \in 1..Len(targets) |-> PutSub(targets[k])],
                       !.join = "pending"]

Put(index, n) ==
  /\ CanCall
  /\ LET call == NewCall("put", index, Buf(n), 0, 0)
         isLastChunk == IsLastChunk(index)
     IN calls' = Append(calls,
          IF closed THEN [call EXCEPT !.mt = << ErrClosed >>]
          ELSE IF isLastChunk /\ n # LastChunkLength(length)
            THEN [call EXCEPT !.mt = << ErrLastLength(LastChunkLength(length)) >>]
          ELSE IF ~isLastChunk /\ n # ChunkLength
            THEN [call EXCEPT !.mt = << ErrLength(ChunkLength) >>]
          ELSE IF Multi THEN PutFanOut(StartChunkTask(call))
          ELSE StartChunkTask(call))
  /\ UNCHANGED << storeVars, providerVars >>

\* a queued microtask runs: () => cb(err)
Microtask(c) ==
  /\ calls[c].mt # << >>
  /\ calls[c].op \in {"put", "get"}
  /\ calls' = [calls EXCEPT ![c].mt = Tail(@),
                            ![c].cbs = Append(@, Cb(Head(calls[c].mt), NoData))]
  /\ UNCHANGED << storeVars, providerVars >>

\* `await this._getChunk(index)` resumes with the cached chunk
ChunkCached(c) ==
  /\ calls[c].pc = "awaitChunk"
  /\ calls' = [calls EXCEPT ![c].pc = "awaitHandle"]
  /\ UNCHANGED << storeVars, providerVars >>

\* _getChunk resumes after `await this.chunksDirPromise`: it stores the chunk
\* with the promise of storageDir.getFileHandle(fileName, { create: true })
ChunkDirReady(c) ==
  /\ calls[c].pc = "awaitDir" /\ Settled(ChunksDirPromise)
  /\ IF ChunksDirPromise = "ok"
     THEN /\ handles' = Append(handles, "pending")
          /\ chunks' = [chunks EXCEPT ![calls[c].index] = Len(handles) + 1]
          /\ calls' = [calls EXCEPT ![c].pc = "awaitHandle", ![c].h = Len(handles) + 1,
                                    ![c].io = @ + 1]
     ELSE /\ calls' = [calls EXCEPT ![c].pc = "done", ![c].cbs = Append(@, Cb(ErrIO, NoData))]
          /\ UNCHANGED << handles, chunks >>
  /\ UNCHANGED << files, length, closed, chunkMap, directoryMap, fileStream, storageDir, chunksDir,
                  fileHandle, streams, chunkFile, fileData, rootRemoved, chunksRemoved, faults, persisted >>

\* getFileHandle of a chunk file completes
ChunkHandleSettle(h) ==
  /\ h \in 1..Len(handles) /\ handles[h] = "pending" /\ Idle
  /\ \E o \in Outcomes(ChunkGone) : handles' = [handles EXCEPT ![h] = o] /\ Charge(o, ChunkGone)
  /\ UNCHANGED << storeVars, storageDir, chunksDir, fileHandle, streams, chunkFile, fileData,
                  rootRemoved, chunksRemoved, calls, persisted >>

\* `await chunk.fileHandlePromise` resumes: put asks for a writable, get for the file
ChunkHandleReady(c) ==
  /\ calls[c].pc = "awaitHandle" /\ Settled(handles[calls[c].h])
  /\ calls' = [calls EXCEPT ![c] =
       IF handles[calls[c].h] = "ok"
       THEN [@ EXCEPT !.pc = IF calls[c].op = "put" THEN "awaitWritable" ELSE "awaitGetFile",
                      !.io = @ + 1]
       ELSE [@ EXCEPT !.pc = "done", !.cbs = Append(@, Cb(ErrIO, NoData))]]
  /\ UNCHANGED << storeVars, providerVars >>

\* fileHandle.createWritable({ keepExistingData: false }) completes; put writes the buffer
PutWritable(c) ==
  /\ calls[c].pc = "awaitWritable" /\ Idle
  /\ \E o \in Outcomes(ChunkGone) :
       /\ Charge(o, ChunkGone)
       /\ calls' = [calls EXCEPT ![c] =
            IF o = "ok" THEN [@ EXCEPT !.pc = "awaitWrite", !.io = @ + 1]
            ELSE [@ EXCEPT !.pc = "done", !.cbs = Append(@, Cb(ErrIO, NoData))]]
  /\ UNCHANGED << storeVars, storageDir, chunksDir, fileHandle, handles, streams, chunkFile,
                  fileData, rootRemoved, chunksRemoved, persisted >>

\* stream.write(buf) completes; put closes the stream
PutWritten(c) ==
  /\ calls[c].pc = "awaitWrite" /\ Idle
  /\ \E o \in Outcomes(ChunkGone) :
       /\ Charge(o, ChunkGone)
       /\ calls' = [calls EXCEPT ![c] =
            IF o = "ok" THEN [@ EXCEPT !.pc = "awaitClose", !.io = @ + 1]
            ELSE [@ EXCEPT !.pc = "done", !.cbs = Append(@, Cb(ErrIO, NoData))]]
  /\ UNCHANGED << storeVars, storageDir, chunksDir, fileHandle, handles, streams, chunkFile,
                  fileData, rootRemoved, chunksRemoved, persisted >>

\* stream.close() completes: the chunk file now holds the buffer;
\* `if (!this.files) cb(null)`
PutClosed(c) ==
  /\ calls[c].pc = "awaitClose" /\ Idle
  /\ \E o \in Outcomes(ChunkGone) :
       /\ Charge(o, ChunkGone)
       /\ chunkFile' = IF o = "ok" THEN [chunkFile EXCEPT ![calls[c].index] = calls[c].buf]
                       ELSE chunkFile
       /\ calls' = [calls EXCEPT ![c] =
            IF o = "ok"
            THEN [@ EXCEPT !.pc = "done",
                           !.cbs = IF Multi THEN @ ELSE Append(@, Cb(Null, NoData))]
            ELSE [@ EXCEPT !.pc = "done", !.cbs = Append(@, Cb(ErrIO, NoData))]]
  /\ UNCHANGED << storeVars, storageDir, chunksDir, fileHandle, handles, streams,
                  fileData, rootRemoved, chunksRemoved, persisted >>

\* ------------------------------------------------- put: per-file sub-writes
\* `catch (err) { return cb(err) }`
FailSub(c, k) ==
  [calls EXCEPT ![c].subs[k].pc = "done", ![c].subs[k].failed = TRUE,
                ![c].cbs = Append(@, Cb(ErrIO, NoData))]

\* `await file.handle` resumes in a sub-write that found no file.stream:
\* file.stream = handle.createWritable({ keepExistingData: true })
PutSubHandleReady(c, k) ==
  LET sub == calls[c].subs[k] IN
  /\ calls[c].op = "put" /\ sub.pc = "awaitFileHandle" /\ Settled(fileHandle[sub.file])
  /\ IF fileHandle[sub.file] = "ok"
     THEN /\ streams' = Append(streams, [file |-> sub.file, st |-> "pending",
                                         state |-> "open", buf |-> << >>])
          /\ fileStream' = [fileStream EXCEPT ![sub.file] = Len(streams) + 1]
          /\ calls' = [calls EXCEPT ![c].subs[k].pc = "awaitStream",
                                    ![c].subs[k].sid = Len(streams) + 1,
                                    ![c].io = @ + 1]
     ELSE /\ calls' = FailSub(c, k)
          /\ UNCHANGED << streams, fileStream >>
  /\ UNCHANGED << files, length, closed, chunks, chunkMap, directoryMap, storageDir, chunksDir, fileHandle,
                  handles, chunkFile, fileData, rootRemoved, chunksRemoved, faults, persisted >>

\* createWritable of a declared file completes: the stream starts from the file's content
StreamSettle(sid) ==
  /\ sid \in 1..Len(streams) /\ streams[sid].st = "pending" /\ Idle
  /\ \E o \in Outcomes(FileGone) :
       /\ Charge(o, FileGone)
       /\ streams' = [streams EXCEPT ![sid].st = o,
                                     ![sid].buf = IF o = "ok" THEN fileData[streams[sid].file]
                                                  ELSE << >>]
  /\ UNCHANGED << storeVars, storageDir, chunksDir, fileHandle, handles, chunkFile, fileData,
                  rootRemoved, chunksRemoved, calls, persisted >>

\* `await file.stream` resumes: stream.write({ type: 'write', position, data })
PutSubStreamReady(c, k) ==
  LET sub == calls[c].subs[k] IN
  /\ calls[c].op = "put" /\ sub.pc = "awaitStream" /\ Settled(streams[sub.sid].st)
  /\ calls' = IF streams[sub.sid].st = "ok"
              THEN [calls EXCEPT ![c].subs[k].pc =
                                   IF streams[sub.sid].state = "open" THEN "awaitWrite"
                                   ELSE "writeRejected",
                                 ![c].io = @ + 1]
              ELSE FailSub(c, k)
  /\ UNCHANGED << storeVars, providerVars >>

\* a write on a stream that is closing, closed or errored is rejected
PutSubWriteRejected(c, k) ==
  /\ calls[c].op = "put" /\ calls[c].subs[k].pc = "writeRejected"
  /\ calls' = FailSub(c, k)
  /\ UNCHANGED << storeVars, providerVars >>

\* the write completes: the stream's buffer holds buf.slice(from, to) at `offset`
PutSubWritten(c, k) ==
  LET sub == calls[c].subs[k] IN
  /\ calls[c].op = "put" /\ sub.pc = "awaitWrite" /\ Idle
  /\ \E o \in Outcomes(FileGone) :
       /\ Charge(o, FileGone)
       /\ IF o = "ok"
          THEN /\ streams' = [streams EXCEPT ![sub.sid].buf =
                    WriteAt(@, sub.offset, BlobSlice(calls[c].buf, sub.from, sub.to))]
               /\ calls' = [calls EXCEPT ![c].subs[k].pc = "done"]
          ELSE /\ streams' = [streams EXCEPT ![sub.sid].state = "errored"]
               /\ calls' = FailSub(c, k)
  /\ UNCHANGED << storeVars, storageDir, chunksDir, fileHandle, handles, chunkFile, fileData,
                  rootRemoved, chunksRemoved, persisted >>

\* Promise.all(promises).then(() => cb(null))
PutJoin(c) ==
  /\ calls[c].op = "put" /\ calls[c].join = "pending" /\ AllSubsDone(calls[c])
  /\ calls' = [calls EXCEPT ![c].join = "done", ![c].cbs = Append(@, Cb(Null, NoData))]
  /\ UNCHANGED << storeVars, providerVars >>

\* ---------------------------------------------------------------------- get
\* opts.offset and opts.length: 0 stands for a value left out (or 0: both are falsy)
GetChunkLength(index) == IF IsLastChunk(index) THEN LastChunkLength(length) ELSE ChunkLength
RangeFrom(off) == off
RangeTo(index, off, len) == IF len # 0 THEN off + len ELSE GetChunkLength(index)
RangeLen(index, off, len) == IF len # 0 THEN len ELSE GetChunkLength(index) - off

\* targets.filter(target => target.to > rangeFrom && target.from < rangeTo)
FilterTargets(targets, rangeFrom, rangeTo) ==
  SelectSeq(targets, LAMBDA t : t.to > rangeFrom /\ t.from < rangeTo)

\* a per-target closure that clips the record and keeps its file offset
GetSub_NoShift(target, rangeFrom, rangeTo) ==
  [from |-> IF target.from < rangeFrom THEN rangeFrom ELSE target.from,
   to |-> IF target.to > rangeTo THEN rangeTo ELSE target.to,
   offset |-> target.offset,
   file |-> target.file, pc |-> "awaitFileHandle", sid |-> 0, val |-> << >>,
   failed |-> FALSE]

\* one per-target closure of get up to `await target.file.handle`: the record
\* clipped to the requested range
GetSub(target, rangeFrom, rangeTo) ==
  LET to == IF target.to > rangeTo THEN rangeTo ELSE target.to
      raise == target.from < rangeFrom
  IN [from |-> IF raise THEN rangeFrom ELSE target.from,
      to |-> to,
      offset |-> IF raise THEN target.offset + (rangeFrom - target.from) ELSE target.offset,
      file |-> target.file, pc |-> "awaitFileHandle", sid |-> 0, val |-> << >>,
      failed |-> FALSE]

\* the multi-file branch of get
GetFanOut(call) ==
  LET rangeFrom == RangeFrom(call.off)
      rangeTo == RangeTo(call.index, call.off, call.len)
      all == chunkMap[call.index]
      targets == FilterTargets(all, rangeFrom, rangeTo)
      noMatch == IF targets = << >> THEN << ErrNoMatch >> ELSE << >>
  IN IF all = << >>
     THEN [call EXCEPT !.mt = << ErrNoMatch >>, !.threw = TRUE]
     ELSE IF rangeFrom = rangeTo
     THEN [call EXCEPT !.mt = noMatch \o << EmptyBuffer >>]
     ELSE [call EXCEPT !.mt = noMatch,
                       !.subs = [k \in 1..Len(targets) |-> GetSub(targets[k], rangeFrom, rangeTo)],
                       !.join = "pending"]

Get(index, off, len) ==
  /\ CanCall
  /\ LET call == NewCall("get", index, << >>, off, len)
     IN calls' = Append(calls,
          IF closed THEN [call EXCEPT !.mt = << ErrClosed >>]
          ELSE IF ~Multi \/ chunks[index] # 0 THEN StartChunkTask(call)
          ELSE GetFanOut(call))
  /\ UNCHANGED << storeVars, providerVars >>

\* what get keeps of the chunk's File: `file.slice(rangeFrom, len + rangeFrom)`
\* unless the whole chunk is asked for
ChunkSlice(data, index, off, len) ==
  LET rangeFrom == RangeFrom(off)
      rlen == RangeLen(index, off, len)
  IN IF rangeFrom # 0 \/ rlen # GetChunkLength(index)
     THEN BlobSlice(data, rangeFrom, rlen + rangeFrom)
     ELSE data

\* fileHandle.getFile() completes; get slices and asks for the bytes
GetFile(c) ==
  /\ calls[c].pc = "awaitGetFile" /\ Idle
  /\ \E o \in Outcomes(ChunkGone) :
       /\ Charge(o, ChunkGone)
       /\ calls' = [calls EXCEPT ![c] =
            IF o = "ok"
            THEN [@ EXCEPT !.pc = "awaitArrayBuffer", !.io = @ + 1,
                           !.snap = ChunkSlice(chunkFile[calls[c].index], calls[c].index,
                                              calls[c].off, calls[c].len)]
            ELSE [@ EXCEPT !.pc = "done", !.cbs = Append(@, Cb(ErrIO, NoData))]]
  /\ UNCHANGED << storeVars, storageDir, chunksDir, fileHandle, handles, streams, chunkFile,
                  fileData, rootRemoved, chunksRemoved, persisted >>

\* a get without the byteLength === 0 test
GetResult_NoCheck(index, buf) == Cb(Null, buf)

\* what get hands to its callback once it has the bytes
GetResult(index, buf) ==
  IF Len(buf) = 0 THEN Cb(ErrNotFound(index), NoData) ELSE Cb(Null, buf)

\* file.arrayBuffer() completes
GetBuffer(c) ==
  /\ calls[c].pc = "awaitArrayBuffer" /\ Idle
  /\ \E o \in Outcomes(FALSE) :
       /\ Charge(o, FALSE)
       /\ calls' = [calls EXCEPT ![c] =
            IF o = "ok"
            THEN [@ EXCEPT !.pc = "done", !.cbs = Append(@, GetResult(calls[c].index, calls[c].snap))]
            ELSE [@ EXCEPT !.pc = "done", !.cbs = Append(@, Cb(ErrIO, NoData))]]
  /\ UNCHANGED << storeVars, storageDir, chunksDir, fileHandle, handles, streams, chunkFile,
                  fileData, rootRemoved, chunksRemoved, persisted >>

\* ---------------------------------------------------- get: per-file reads
\* `catch (err) { return err }`: the read's value is the Error object
ErrSub(c, k) ==
  [calls EXCEPT ![c].subs[k].pc = "done", ![c].subs[k].failed = TRUE,
                ![c].subs[k].val = << Junk >>]

\* `await target.file.handle` resumes: handle.getFile()
GetSubHandleReady(c, k) ==
  LET sub == calls[c].subs[k] IN
  /\ calls[c].op = "get" /\ sub.pc = "awaitFileHandle" /\ Settled(fileHandle[sub.file])
  /\ calls' = IF fileHandle[sub.file] = "ok"
              THEN [calls EXCEPT ![c].subs[k].pc = "awaitGetFile", ![c].io = @ + 1]
              ELSE ErrSub(c, k)
  /\ UNCHANGED << storeVars, providerVars >>

\* getFile() completes: .slice(offset, offset + to - from), then arrayBuffer()
GetSubFile(c, k) ==
  LET sub == calls[c].subs[k] IN
  /\ calls[c].op = "get" /\ sub.pc = "awaitGetFile" /\ Idle
  /\ \E o \in Outcomes(FileGone) :
       /\ Charge(o, FileGone)
       /\ calls' = IF o = "ok"
                   THEN [calls EXCEPT ![c].subs[k].pc = "awaitArrayBuffer",
                                      ![c].subs[k].val =
                                         BlobSlice(fileData[sub.file], sub.offset,
                                                   sub.offset + sub.to - sub.from),
                                      ![c].io = @ + 1]
                   ELSE ErrSub(c, k)
  /\ UNCHANGED << storeVars, storageDir, chunksDir, fileHandle, handles, streams, chunkFile,
                  fileData, rootRemoved, chunksRemoved, persisted >>

\* arrayBuffer() of the slice completes
GetSubBuffer(c, k) ==
  /\ calls[c].op = "get" /\ calls[c].subs[k].pc = "awaitArrayBuffer" /\ Idle
  /\ \E o \in Outcomes(FALSE) :
       /\ Charge(o, FALSE)
       /\ calls' = IF o = "ok" THEN [calls EXCEPT ![c].subs[k].pc = "done"] ELSE ErrSub(c, k)
  /\ UNCHANGED << storeVars, storageDir, chunksDir, fileHandle, handles, streams, chunkFile,
                  fileData, rootRemoved, chunksRemoved, persisted >>

\* new Uint8Array(value): an Error object gives an empty array
AsBytes(sub) == IF sub.failed THEN << >> ELSE sub.val

RECURSIVE BlobOf(_)
\* new Blob(values): the values in order, an Error object as its text
BlobOf(subs) == IF subs = << >> THEN << >> ELSE Head(subs).val \o BlobOf(Tail(subs))

\* Promise.all(promises).then(values => ...)
GetJoin(c) ==
  /\ calls[c].op = "get" /\ calls[c].join = "pending" /\ AllSubsDone(calls[c])
  /\ calls' = [calls EXCEPT ![c] =
       IF Len(@.subs) = 1
       THEN [@ EXCEPT !.join = "done", !.cbs = Append(@, Cb(Null, AsBytes(calls[c].subs[1])))]
       ELSE [@ EXCEPT !.join = "awaitBlob"]]
  /\ UNCHANGED << storeVars, providerVars >>

\* new Blob(values).arrayBuffer() completes
GetBlob(c) ==
  /\ calls[c].op = "get" /\ calls[c].join = "awaitBlob" /\ Idle
  /\ calls' = [calls EXCEPT ![c].join = "done",
                            ![c].cbs = Append(@, Cb(Null, BlobOf(calls[c].subs)))]
  /\ UNCHANGED << storeVars, providerVars >>

\* ------------------------------------------------------------ close, cleanup
\* cleanup's loop over this.files from file f on, up to its next await
CleanupFrom(call, f) ==
  LET open == { g \in f..Len(files) : fileStream[g] # 0 }
      next == CHOOSE g \in open : \A g2 \in open : g <= g2
  IN IF open # {}
     THEN [call EXCEPT !.td = "awaitStream", !.tf = next, !.h = fileStream[next]]
     ELSE [call EXCEPT !.td = "awaitStorageDir"]

\* close() past its guard, shared with destroy: the flags, the maps and the
\* synchronous part of cleanup(), then queueMicrotask(() => cb(null))
CloseBody(call) ==
  /\ closed' = TRUE
  /\ chunkMap' = [p \in Indices |-> << >>]
  /\ directoryMap' = [d \in Dirs |-> 0]
  /\ chunks' = IF Multi THEN chunks ELSE [i \in Indices |-> 0]
  /\ calls' = Append(calls,
       [(IF Multi THEN CleanupFrom(call, 1) ELSE [call EXCEPT !.td = "done"])
          EXCEPT !.mt = << Null >>])
  /\ UNCHANGED << files, length, fileStream, providerVars >>

\* a close without the `if (this.closed)` guard
Close_NoGuard ==
  /\ CanCall
  /\ CloseBody(NewCall("close", 0, << >>, 0, 0))

Close ==
  /\ CanCall
  /\ LET call == NewCall("close", 0, << >>, 0, 0)
     IN IF closed
        THEN /\ calls' = Append(calls, [call EXCEPT !.mt = << ErrClosed >>])
             /\ UNCHANGED << storeVars, providerVars >>
        ELSE CloseBody(call)

\* close's queued microtask: cb(err) of the guard, or cb(null)
CloseMicrotask(c) ==
  /\ calls[c].op = "close" /\ calls[c].mt # << >>
  /\ calls' = [calls EXCEPT ![c].mt = Tail(@),
                            ![c].cbs = Append(@, Cb(Head(calls[c].mt), NoData))]
  /\ UNCHANGED << storeVars, providerVars >>

\* cleanup resumes after `await file.stream`: stream.close()
CleanupStreamReady(c) ==
  /\ calls[c].td = "awaitStream" /\ Settled(streams[calls[c].h].st)
  /\ IF streams[calls[c].h].st = "ok"
     THEN /\ streams' = [streams EXCEPT ![calls[c].h].state =
                           IF @ = "open" THEN "closing" ELSE @]
          /\ calls' = [calls EXCEPT ![c].td = "awaitStreamClose", ![c].io = @ + 1]
     ELSE /\ calls' = [calls EXCEPT ![c].td = "failed"]
          /\ UNCHANGED streams
  /\ UNCHANGED << storeVars, storageDir, chunksDir, fileHandle, handles, chunkFile, fileData,
                  rootRemoved, chunksRemoved, faults, persisted >>

\* a write queued on the stream before close() is still in flight
WritesInFlight(sid) ==
  \E c \in CallIds : \E k \in 1..Len(calls[c].subs) :
     calls[c].op = "put" /\ calls[c].subs[k].pc = "awaitWrite" /\ calls[c].subs[k].sid = sid

\* stream.close() completes: the file takes the stream's buffer; file.stream = null
\* and the loop goes on
CleanupStreamClosed(c) ==
  LET sid == calls[c].h
      f == calls[c].tf
      gone == FileGone \/ streams[sid].state = "errored" IN
  /\ calls[c].td = "awaitStreamClose" /\ Idle /\ ~WritesInFlight(sid)
  /\ \E o \in Outcomes(gone) :
       /\ Charge(o, gone)
       /\ IF o = "ok"
          THEN /\ streams' = [streams EXCEPT ![sid].state = "closed"]
               /\ fileData' = [fileData EXCEPT ![f] = streams[sid].buf]
               /\ fileStream' = [fileStream EXCEPT ![f] = 0]
               /\ calls' = [calls EXCEPT ![c] = CleanupFrom(@, f + 1)]
          ELSE /\ streams' = [streams EXCEPT ![sid].state = "errored"]
               /\ calls' = [calls EXCEPT ![c].td = "failed"]
               /\ UNCHANGED << fileData, fileStream >>
  /\ UNCHANGED << files, length, closed, chunks, chunkMap, directoryMap, storageDir, chunksDir, fileHandle,
                  handles, chunkFile, rootRemoved, chunksRemoved, persisted >>

\* cleanup resumes after `await this.storageDirPromise`: removeEntry('chunks')
CleanupDirReady(c) ==
  /\ calls[c].td = "awaitStorageDir" /\ Settled(storageDir)
  /\ calls' = IF storageDir = "ok"
              THEN [calls EXCEPT ![c].td = "awaitRemove", ![c].io = @ + 1]
              ELSE [calls EXCEPT ![c].td = "failed"]
  /\ UNCHANGED << storeVars, providerVars >>

\* removeEntry('chunks', { recursive: true }) completes; this.chunks = []
CleanupRemoved(c) ==
  LET gone == rootRemoved \/ chunksDir # "ok" IN
  /\ calls[c].td = "awaitRemove" /\ Idle /\ chunksDir # "pending"
  /\ \E o \in Outcomes(gone) :
       /\ Charge(o, gone)
       /\ IF o = "ok"
          THEN /\ chunksRemoved' = TRUE
               /\ chunkFile' = [i \in Indices |-> << >>]
               /\ chunks' = [i \in Indices |-> 0]
               /\ calls' = [calls EXCEPT ![c].td = "done"]
          ELSE /\ calls' = [calls EXCEPT ![c].td = "failed"]
               /\ UNCHANGED << chunksRemoved, chunkFile, chunks >>
  /\ UNCHANGED << files, length, closed, chunkMap, directoryMap, fileStream, storageDir, chunksDir,
                  fileHandle, handles, streams, fileData, rootRemoved, persisted >>

\* ------------------------------------------------------------------ destroy
Destroy ==
  /\ CanCall
  /\ LET call == NewCall("destroy", 0, << >>, 0, 0)
     IN IF closed
        THEN /\ calls' = Append(calls, [call EXCEPT !.mt = << ErrClosed >>])
             /\ UNCHANGED << storeVars, providerVars >>
        ELSE CloseBody(call)

\* destroy's queued microtask: cb(err) of the guard, or close's cb(null), which
\* is handleClose(null) and runs up to `await this.rootDirPromise`
DestroyMicrotask(c) ==
  /\ calls[c].op = "destroy" /\ calls[c].mt # << >>
  /\ calls' = [calls EXCEPT ![c] =
       IF Head(@.mt) = Null
       THEN [@ EXCEPT !.mt = Tail(@), !.dpc = "awaitRoot"]
       ELSE [@ EXCEPT !.mt = Tail(@), !.cbs = Append(@, Cb(Head(calls[c].mt), NoData))]]
  /\ UNCHANGED << storeVars, providerVars >>

\* handleClose resumes: rootDir.removeEntry(this.name, { recursive: true })
DestroyRootReady(c) ==
  /\ calls[c].dpc = "awaitRoot"
  /\ calls' = [calls EXCEPT ![c].dpc = "awaitRemoveRoot", ![c].io = @ + 1]
  /\ UNCHANGED << storeVars, providerVars >>

\* removeEntry(name) completes: the storage root and all it holds are gone
DestroyRemoved(c) ==
  /\ calls[c].dpc = "awaitRemoveRoot" /\ Idle /\ storageDir # "pending"
  /\ \E o \in Outcomes(rootRemoved) :
       /\ Charge(o, rootRemoved)
       /\ IF o = "ok"
          THEN /\ rootRemoved' = TRUE
               /\ chunkFile' = [i \in Indices |-> << >>]
               /\ fileData' = [f \in 1..Len(files) |-> << >>]
               /\ calls' = [calls EXCEPT ![c].dpc = "done",
                                         ![c].cbs = Append(@, Cb(Null, NoData))]
          ELSE /\ calls' = [calls EXCEPT ![c].dpc = "done",
                                         ![c].cbs = Append(@, Cb(ErrIO, NoData))]
               /\ UNCHANGED << rootRemoved, chunkFile, fileData >>
  /\ UNCHANGED << storeVars, storageDir, chunksDir, fileHandle, handles, streams,
                  chunksRemoved, persisted >>

\* ------------------------------------------------------------ specification
\* the lengths of the buffers put: the chunk length and the last chunk's length
BufLens == {ChunkLength - 1, ChunkLength}
\* << opts.offset, opts.length >> of the gets: the whole chunk, a range inside
\* it, a range at its end, and the empty range at the chunk length
GetOpts == { << 0, 0 >>, << 1, ChunkLength - 1 >>, << ChunkLength - 1, 1 >>, << ChunkLength, 0 >> }
\* every range that ends within the chunk length
AllOpts == { o \in (0..ChunkLength) \X (0..ChunkLength) : o[1] + o[2] <= ChunkLength }

Next ==
  \/ StorageDirSettle
  \/ ChunksDirResume
  \/ ChunksDirSettle
  \/ \E f \in 1..Len(files) : FileHandleResume(f)
  \/ \E f \in 1..Len(files) : FileHandleSettle(f)
  \/ \E i \in Indices, n \in BufLens : Put(i, n)
  \/ \E i \in Indices, o \in GetOpts : Get(i, o[1], o[2])
  \/ Close
  \/ Destroy
  \/ \E c \in CallIds : Microtask(c)
  \/ \E c \in CallIds : ChunkCached(c)
  \/ \E c \in CallIds : ChunkDirReady(c)
  \/ \E h \in 1..Len(handles) : ChunkHandleSettle(h)
  \/ \E c \in CallIds : ChunkHandleReady(c)
  \/ \E c \in CallIds : PutWritable(c)
  \/ \E c \in CallIds : PutWritten(c)
  \/ \E c \in CallIds : PutClosed(c)
  \/ \E c \in CallIds : \E k \in 1..Len(calls[c].subs) : PutSubHandleReady(c, k)
  \/ \E sid \in 1..Len(streams) : StreamSettle(sid)
  \/ \E c \in CallIds : \E k \in 1..Len(calls[c].subs) : PutSubStreamReady(c, k)
  \/ \E c \in CallIds : \E k \in 1..Len(calls[c].subs) : PutSubWriteRejected(c, k)
  \/ \E c \in CallIds : \E k \in 1..Len(calls[c].subs) : PutSubWritten(c, k)
  \/ \E c \in CallIds : PutJoin(c)
  \/ \E c \in CallIds : GetFile(c)
  \/ \E c \in CallIds : GetBuffer(c)
  \/ \E c \in CallIds : \E k \in 1..Len(calls[c].subs) : GetSubHandleReady(c, k)
  \/ \E c \in CallIds : \E k \in 1..Len(calls[c].subs) : GetSubFile(c, k)
  \/ \E c \in CallIds : \E k \in 1..Len(calls[c].subs) : GetSubBuffer(c, k)
  \/ \E c \in CallIds : GetJoin(c)
  \/ \E c \in CallIds : GetBlob(c)
  \/ \E c \in CallIds : CloseMicrotask(c)
  \/ \E c \in CallIds : CleanupStreamReady(c)
  \/ \E c \in CallIds : CleanupStreamClosed(c)
  \/ \E c \in CallIds : CleanupDirReady(c)
  \/ \E c \in CallIds : CleanupRemoved(c)
  \/ \E c \in CallIds : DestroyMicrotask(c)
  \/ \E c \in CallIds : DestroyRootReady(c)
  \/ \E c \in CallIds : DestroyRemoved(c)

Spec == Init /\ [][Next]_vars

\* ------------------------------------------------------- gets on their own
\* a caller that only reads: the store over what an earlier session left
NextGet ==
  \/ StorageDirSettle
  \/ ChunksDirResume
  \/ ChunksDirSettle
  \/ \E f \in 1..Len(files) : FileHandleResume(f)
  \/ \E f \in 1..Len(files) : FileHandleSettle(f)
  \/ \E i \in Indices, o \in AllOpts : Get(i, o[1], o[2])
  \/ \E c \in CallIds : Microtask(c)
  \/ \E c \in CallIds : ChunkCached(c)
  \/ \E c \in CallIds : ChunkDirReady(c)
  \/ \E h \in 1..Len(handles) : ChunkHandleSettle(h)
  \/ \E c \in CallIds : ChunkHandleReady(c)
  \/ \E c \in CallIds : GetFile(c)
  \/ \E c \in CallIds : GetBuffer(c)
  \/ \E c \in CallIds : \E k \in 1..Len(calls[c].subs) : GetSubHandleReady(c, k)
  \/ \E c \in CallIds : \E k \in 1..Len(calls[c].subs) : GetSubFile(c, k)
  \/ \E c \in CallIds : \E k \in 1..Len(calls[c].subs) : GetSubBuffer(c, k)
  \/ \E c \in CallIds : GetJoin(c)
  \/ \E c \in CallIds : GetBlob(c)

SpecGet == Init /\ [][NextGet]_vars

\* ------------------------------------------- files in a subdirectory
InitDir ==
  /\ files = LayoutDir
  /\ length = StoreLength(files, 0)
  /\ closed = FALSE
  /\ chunks = [i \in Indices |-> 0]
  /\ chunkMap = BuildChunkMap(files)
  /\ directoryMap = [d \in Dirs |-> 0]
  /\ storageDir = "pending"
  /\ chunksDir = "wait"
  /\ fileHandle = [f \in 1..Len(files) |-> FileHandleStart([d \in Dirs |-> 0], files[f].path)]
  /\ handles = << >>
  /\ fileStream = [f \in 1..Len(files) |-> 0]
  /\ streams = << >>
  /\ persisted \in BOOLEAN
  /\ chunkFile = [i \in Indices |-> << >>]
  /\ fileData = [f \in 1..Len(files) |->
                    IF persisted THEN StreamBytes(FileOffset(files, f), files[f].length)
                    ELSE << >>]
  /\ rootRemoved = FALSE
  /\ chunksRemoved = FALSE
  /\ faults = 0
  /\ calls = << >>

\* construction of the store, and its teardown
NextDir ==
  \/ StorageDirSettle
  \/ ChunksDirResume
  \/ ChunksDirSettle
  \/ \E f \in 1..Len(files) : DirResume(f)
  \/ \E f \in 1..Len(files) : DirSettle(f)
  \/ \E f \in 1..Len(files) : FileHandleDirReady(f)
  \/ \E f \in 1..Len(files) : FileHandleSettle(f)
  \/ Close
  \/ \E c \in CallIds : CloseMicrotask(c)
  \/ \E c \in CallIds : CleanupDirReady(c)
  \/ \E c \in CallIds : CleanupRemoved(c)

SpecDir == InitDir /\ [][NextDir]_vars

\* ------------------------------------------- the constructor on its own
\* bounds of the arguments handed to the constructor
MaxChunk == 2
MaxFiles == 2
MaxFileLength == 2
MaxOffset == 1
MaxLength == 2

Nil == -1        \* an argument or property that is null or undefined
Infinity == -2   \* this.length of a store without total length
Undefined == -3  \* a property the constructor leaves unset
NoPath == "undefined"  \* file.path that is null or undefined

\* the scenario of two files of 15 bytes under chunks of 10
ExampleChunkLength == 10
ExampleFileLength == 15

\* one element of opts.files; the file is known by its place in the list
FileArgs ==
  [path : {NoPath, "f"}, length : {Nil} \cup (0..MaxFileLength),
   offset : {Nil} \cup (0..MaxOffset)]

\* opts.files, when given: a list with at most one file that has no path
FilesArgs ==
  { fs \in UNION { [1..n -> FileArgs] : n \in 0..MaxFiles } :
      Cardinality({ i \in DOMAIN fs : fs[i].path = NoPath }) <= 1 }

OptsArgs ==
  { o \in [rootDir : BOOLEAN, hasFiles : BOOLEAN, files : FilesArgs,
           length : {Nil} \cup (1..MaxLength)] :
      ~o.hasFiles => o.files = << >> }

ExampleOpts ==
  [rootDir |-> TRUE, hasFiles |-> TRUE, length |-> Nil,
   files |-> << [path |-> "f", length |-> ExampleFileLength, offset |-> Nil],
                [path |-> "f", length |-> ExampleFileLength, offset |-> Nil] >>]

\* the files up to the i-th as the map callback leaves them: `offset` set
RECURSIVE SetOffsets(_, _)
SetOffsets(fs, i) ==
  IF i = 0 THEN << >>
  ELSE LET prev == SetOffsets(fs, i - 1)
           offset == IF fs[i].offset # Nil THEN fs[i].offset
                     ELSE IF i = 1 THEN 0
                     ELSE prev[i - 1].offset + prev[i - 1].length
       IN Append(prev, [fs[i] EXCEPT !.offset = offset])

\* a loop body that never shifts the file offset
OverlapRecords_NoOffset(c, i, fileStart, fileEnd, p, lastChunk) ==
  [k \in 1..(IF lastChunk < p THEN 0 ELSE lastChunk - p + 1) |->
     LET chunkStart == (p + k - 1) * c
         chunkEnd == chunkStart + c
     IN [p |-> p + k - 1,
         from |-> IF fileStart < chunkStart THEN 0 ELSE fileStart - chunkStart,
         to |-> IF fileEnd > chunkEnd THEN c ELSE fileEnd - chunkStart,
         offset |-> 0, file |-> i]]

\* a loop body that never clips `to` to the chunk
OverlapRecords_NoClip(c, i, fileStart, fileEnd, p, lastChunk) ==
  [k \in 1..(IF lastChunk < p THEN 0 ELSE lastChunk - p + 1) |->
     LET chunkStart == (p + k - 1) * c
     IN [p |-> p + k - 1,
         from |-> IF fileStart < chunkStart THEN 0 ELSE fileStart - chunkStart,
         to |-> fileEnd - chunkStart,
         offset |-> IF fileStart > chunkStart THEN 0 ELSE chunkStart - fileStart,
         file |-> i]]

\* the records file i pushes under chunk length c, for p = firstChunk..lastChunk
RECURSIVE OverlapRecords(_, _, _, _, _, _)
OverlapRecords(c, i, fileStart, fileEnd, p, lastChunk) ==
  IF p > lastChunk THEN << >>
  ELSE LET chunkStart == p * c
           chunkEnd == chunkStart + c
           from == IF fileStart < chunkStart THEN 0 ELSE fileStart - chunkStart
           to == IF fileEnd > chunkEnd THEN c ELSE fileEnd - chunkStart
           offset == IF fileStart > chunkStart THEN 0 ELSE chunkStart - fileStart
       IN << [p |-> p, from |-> from, to |-> to, offset |-> offset, file |-> i] >>
            \o OverlapRecords(c, i, fileStart, fileEnd, p + 1, lastChunk)

\* Math.floor((fileEnd - 1) / chunkLength)
LastChunkOf(c, file) == (file.offset + file.length - 1) \div c

\* all records in push order, for files that have their offset
RECURSIVE MapRecords(_, _, _)
MapRecords(c, fs, i) ==
  IF i > Len(fs) THEN << >>
  ELSE LET fileStart == fs[i].offset
           fileEnd == fs[i].offset + fs[i].length
           firstChunk == fileStart \div c
       IN OverlapRecords(c, i, fileStart, fileEnd, firstChunk, LastChunkOf(c, fs[i]))
            \o MapRecords(c, fs, i + 1)

\* the length of the array this.chunkMap
MapLength(c, fs) ==
  LET tops == { LastChunkOf(c, fs[i]) + 1 : i \in 1..Len(fs) } \cup {0}
  IN CHOOSE t \in tops : \A u \in tops : u <= t

\* this.chunkMap of a store built with chunk length c; << >> for a hole
ChunkMapOf(c, fs) ==
  [p \in 0..(MapLength(c, fs) - 1) |-> SelectChunk(MapRecords(c, fs, 1), p)]

\* a last chunk index that rounds down
LastIndexOf_Floor(c, len) == (len \div c) - 1

\* Math.ceil(length / chunkLength) - 1
LastIndexOf(c, len) == ((len + c - 1) \div c) - 1

\* length % chunkLength || chunkLength
LastLengthOf(c, len) == IF len % c # 0 THEN len % c ELSE c

Thrown(message) == [threw |-> message]

\* the fields of the store once the constructor has returned
Built(c, multi, fs, len) ==
  [threw |-> "", chunkLength |-> c, multi |-> multi, files |-> fs,
   chunkMap |-> ChunkMapOf(c, fs), length |-> len,
   lastChunkLength |-> IF len = Infinity THEN Undefined ELSE LastLengthOf(c, len),
   lastChunkIndex |-> IF len = Infinity THEN Undefined ELSE LastIndexOf(c, len)]

\* new WebFsChunkStore(chunkLength, opts); chunkLength 0 stands for every falsy value
Constructor(chunkLength, opts) ==
  IF chunkLength = 0 THEN Thrown("First argument must be a chunk length")
  ELSE IF opts.hasFiles /\ opts.rootDir
  THEN LET fs == opts.files
           bad == { i \in 1..Len(fs) : fs[i].path = NoPath \/ fs[i].length = Nil }
           first == CHOOSE i \in bad : \A j \in bad : i <= j
       IN IF bad # {}
          THEN (IF fs[first].path = NoPath
                THEN Thrown("File is missing path property")
                ELSE Thrown("File is missing length property"))
          ELSE IF opts.length # Nil /\ opts.length # SumLengths(fs)
          THEN Thrown("total files length is not equal to explicit length option")
          ELSE Built(chunkLength, TRUE, SetOffsets(fs, Len(fs)), SumLengths(fs))
  ELSE Built(chunkLength, FALSE, << >>, IF opts.length = Nil THEN Infinity ELSE opts.length)

\* << chunkLength, opts >>: every combination within the bounds, and the scenario
CtorArgs == ((0..MaxChunk) \X OptsArgs) \cup { << ExampleChunkLength, ExampleOpts >> }

\* the arguments of one construction, before the constructor runs
InitCtor ==
  /\ \E a \in CtorArgs :
       calls = << [op |-> "new", chunkLength |-> a[1], opts |-> a[2], store |-> << >>] >>
  /\ files = << >> /\ length = 0 /\ closed = FALSE
  /\ chunks = [i \in Indices |-> 0]
  /\ chunkMap = [p \in Indices |-> << >>]
  /\ directoryMap = [d \in Dirs |-> 0]
  /\ storageDir = "pending" /\ chunksDir = "wait"
  /\ fileHandle = << >> /\ handles = << >> /\ fileStream = << >> /\ streams = << >>
  /\ persisted = FALSE
  /\ chunkFile = [i \in Indices |-> << >>]
  /\ fileData = << >>
  /\ rootRemoved = FALSE /\ chunksRemoved = FALSE /\ faults = 0

\* the constructor runs on the arguments
Construct ==
  /\ calls[1].op = "new" /\ calls[1].store = << >>
  /\ calls' = [calls EXCEPT ![1].store =
                 << Constructor(calls[1].chunkLength, calls[1].opts) >>]
  /\ UNCHANGED << storeVars, providerVars >>

NextCtor == Construct

SpecCtor == InitCtor /\ [][NextCtor]_vars

\* ------------------------------------------------------------------ claims
Errs(call) == { call.cbs[k].err : k \in 1..Len(call.cbs) }
ReportedSuccess(call) == Null \in Errs(call)
\* every step the call started has run
Settledcall(call) ==
  /\ call.mt = << >>
  /\ call.pc \in {"none", "done"}
  /\ call.join \in {"none", "done"}
  /\ call.td \in {"none", "done", "failed"}
  /\ call.dpc \in {"none", "done"}

\* C1: on an open store, a whole-chunk get(i) issued after put(i, buf) reported
\* success, with no other put on i and no provider failure, delivers only
\* (null, buf), whatever the order of the steps the put started, in both modes.
C1_RoundTrip ==
  \A p \in CallIds, g \in CallIds :
    ( /\ calls[p].op = "put" /\ calls[g].op = "get" /\ calls[g].index = calls[p].index
      /\ calls[g].off = 0 /\ calls[g].len = 0
      /\ p \in calls[g].prior /\ calls[g].open
      /\ \A q \in CallIds : (calls[q].op = "put" /\ calls[q].index = calls[p].index) => q = p
      /\ faults = 0 )
    => \A k \in 1..Len(calls[g].cbs) : calls[g].cbs[k] = Cb(Null, calls[p].buf)

\* C2: in a multi-file store, put reports success only when every per-file
\* sub-write has completed without failure, and a put one of whose sub-writes
\* failed reports the error and never success.
C2_PutAllOrError ==
  \A c \in CallIds :
    (calls[c].op = "put" /\ Multi /\ calls[c].subs # << >>) =>
      LET subs == calls[c].subs
          anyFailed == \E k \in 1..Len(subs) : subs[k].failed
      IN /\ ReportedSuccess(calls[c]) =>
              \A k \in 1..Len(subs) : subs[k].pc = "done" /\ ~subs[k].failed
         /\ anyFailed => (ErrIO \in Errs(calls[c]) /\ ~ReportedSuccess(calls[c]))

\* what a call made on a closed store has done, at any time
C3_ClosedCall(call) ==
  /\ call.cbs = IF call.mt = << >> THEN << Cb(ErrClosed, NoData) >> ELSE << >>
  /\ call.mt \in { << >>, << ErrClosed >> }
  /\ call.io = 0 /\ ~call.threw
  /\ call.pc = "none" /\ call.subs = << >> /\ call.join = "none"
  /\ call.td = "none" /\ call.dpc = "none"

\* C3: a put, get, close or destroy call made after close or destroy was called
\* delivers the closed-store error, exactly once and from a microtask, starts
\* no provider operation and no teardown, and leaves the store's state as it was.
C3_AfterClose ==
  /\ [](\A c \in CallIds : ~calls[c].open => C3_ClosedCall(calls[c]))
  /\ [][(closed /\ Len(calls') > Len(calls)) =>
          (closed' /\ UNCHANGED << storeVars, providerVars >>)]_vars

C3_Witness ==
  \E c \in CallIds, d \in CallIds :
    /\ c < d /\ calls[c].op = "close" /\ calls[c].open
    /\ calls[d].op = "close" /\ ~calls[d].open
    /\ calls[d].cbs = << Cb(ErrClosed, NoData) >>

\* the length put expects of the buffer for an index
C4_Expected(index) == IF index = LastChunkIndex(length) THEN LastChunkLength(length) ELSE ChunkLength

C5_PartialRead ==
  \A g1 \in CallIds, g2 \in CallIds :
    LET full == calls[g1]
        part == calls[g2]
        d == full.cbs[1].data
    IN ( /\ \A q \in CallIds : calls[q].op = "get"
         /\ full.index = part.index /\ full.off = 0 /\ full.len = 0
         /\ part.len > 0 /\ part.off + part.len <= GetChunkLength(part.index)
         /\ Len(full.cbs) = 1 /\ full.cbs[1].err = Null
         /\ Len(d) = GetChunkLength(full.index)
         /\ faults = 0
         /\ part.cbs # << >> )
       => part.cbs = << Cb(Null, [k \in 1..part.len |-> d[part.off + k]]) >>

C5_Witness ==
  \E g1 \in CallIds, g2 \in CallIds :
    /\ Multi /\ faults = 0
    /\ calls[g1].index = calls[g2].index
    /\ calls[g1].off = 0 /\ calls[g1].len = 0 /\ Len(calls[g1].cbs) = 1
    /\ calls[g1].cbs[1].err = Null /\ Len(calls[g1].cbs[1].data) = ChunkLength
    /\ calls[g2].off = 1 /\ calls[g2].len = ChunkLength - 1
    /\ Len(calls[g2].subs) = 2 /\ calls[g2].subs[1].offset = 1
    /\ Len(calls[g2].cbs) = 1 /\ calls[g2].cbs[1].err = Null

\* the index holds no content: fresh storage and no put of it
C6_NeverWritten(index) ==
  /\ ~persisted
  /\ \A q \in CallIds : ~(calls[q].op = "put" /\ calls[q].index = index)

\* C6: in a store without declared files, a successful get carries at least one
\* byte, and a get of an index that holds no content ends with the notFound
\* error (or with the provider's error, when the provider failed or the storage
\* was removed under the get).
C6_NotFound ==
  \A g \in CallIds :
    (calls[g].op = "get" /\ ~Multi /\ calls[g].open) =>
      LET call == calls[g] IN
      /\ \A k \in 1..Len(call.cbs) :
           call.cbs[k].err = Null => (call.cbs[k].data # NoData /\ Len(call.cbs[k].data) >= 1)
      /\ (C6_NeverWritten(call.index) /\ call.pc = "done") =>
           \/ call.cbs = << Cb(ErrNotFound(call.index), NoData) >>
           \/ call.cbs = << Cb(ErrIO, NoData) >> /\ (faults > 0 \/ closed)

C6_Witness ==
  \E g \in CallIds :
    /\ calls[g].op = "get" /\ ~Multi /\ calls[g].open /\ C6_NeverWritten(calls[g].index)
    /\ calls[g].cbs = << Cb(ErrNotFound(calls[g].index), NoData) >>

\* C7: a put or get in which a per-file operation of the provider failed
\* delivers the error to its callback, and such a get never delivers (null, data).
C7_ProviderErrors ==
  \A c \in CallIds :
    LET call == calls[c] IN
    (call.op \in {"put", "get"} /\ \E k \in 1..Len(call.subs) : call.subs[k].failed) =>
      /\ call.join = "done" => ErrIO \in Errs(call)
      /\ call.op = "get" => ~ReportedSuccess(call)

\* the records of the constructor's map that meet the range of a get
C8_Range(call) ==
  FilterTargets(BuildChunkMap(files)[call.index], RangeFrom(call.off),
                RangeTo(call.index, call.off, call.len))

\* C8: in a multi-file store, a put or get of an index without overlap records,
\* and a get whose range meets no record, does not throw, never reports
\* success, and ends having delivered the "no files match" error.
C8_NoMatch ==
  \A c \in CallIds :
    LET call == calls[c] IN
    ( /\ Multi /\ call.open
      /\ \/ call.op = "put" /\ call.pc # "none" /\ BuildChunkMap(files)[call.index] = << >>
         \/ call.op = "get" /\ call.pc = "none" /\ C8_Range(call) = << >> )
    => /\ ~call.threw
       /\ ~ReportedSuccess(call)
       /\ Settledcall(call) => ErrNoMatch \in Errs(call)

\* C9: close on an open store calls back only when teardown has ended, with
\* null when every step succeeded and with an error when a step failed.
C9_CloseAfterTeardown ==
  \A c \in CallIds :
    LET call == calls[c] IN
    (call.op = "close" /\ call.open /\ call.cbs # << >>) =>
      /\ call.td \in {"done", "failed"}
      /\ call.td = "done" => call.cbs = << Cb(Null, NoData) >>
      /\ call.td = "failed" => (Len(call.cbs) = 1 /\ call.cbs[1].err # Null)

\* C10: destroy on an open store asks for the removal of the storage root only
\* when close's teardown is complete; when it reports success the root is gone
\* and no teardown step is pending; later puts get the closed-store error.
C10_DestroyOrder ==
  \A d \in CallIds :
    LET call == calls[d] IN
    (call.op = "destroy" /\ call.open) =>
      /\ call.dpc \in {"awaitRemoveRoot", "done"} => call.td = "done"
      /\ ReportedSuccess(call) => (rootRemoved /\ call.td = "done")
      /\ \A p \in CallIds :
           (p > d /\ calls[p].op = "put" /\ calls[p].mt = << >>) =>
              calls[p].cbs = << Cb(ErrClosed, NoData) >>

\* construction completed without a provider failure
C11_Constructed ==
  /\ storageDir = "ok" /\ ChunksDirPromise = "ok"
  /\ \A f \in 1..Len(files) : fileHandle[f] = "ok"

\* C11: on a store that is still open and was constructed without failure, a
\* put or get issued when the provider has stopped failing is not failed by the
\* provider: it delivers no provider error and none of its per-file operations
\* fails, whatever failed in the calls before it.
C11_FailureIsolation ==
  \A d \in CallIds :
    LET call == calls[d] IN
    ( /\ call.op \in {"put", "get"} /\ ~closed /\ C11_Constructed
      /\ call.faultsAt = MaxFaults )
    => /\ ErrIO \notin Errs(call)
       /\ \A k \in 1..Len(call.subs) : ~call.subs[k].failed

\* a construction that has returned a store in multi-file mode
BuiltMulti(call) ==
  /\ call.op = "new" /\ call.store # << >>
  /\ call.store[1].threw = "" /\ call.store[1].multi

Max2(a, b) == IF a >= b THEN a ELSE b
Min2(a, b) == IF a <= b THEN a ELSE b

\* an index past every chunk that a file of the store touches
PastEnd(fs) == Len(fs) + SumLengths(fs) + (IF fs = << >> THEN 0 ELSE
  LET offs == { fs[i].offset : i \in 1..Len(fs) } IN CHOOSE t \in offs : \A u \in offs : u <= t)

\* entry p of a chunk map, << >> where the array has a hole or has ended
RecordsAt(map, p) == IF p \in DOMAIN map THEN map[p] ELSE << >>

\* the records the claim gives chunk p: one for each file whose chunks include p
C12_Expected(c, fs, p) ==
  LET touching == SelectSeq([i \in 1..Len(fs) |-> i],
                    LAMBDA i : /\ (fs[i].offset \div c) <= p
                               /\ p <= ((fs[i].offset + fs[i].length - 1) \div c))
  IN [k \in 1..Len(touching) |->
        LET i == touching[k]
            fileStart == fs[i].offset
            fileEnd == fs[i].offset + fs[i].length
        IN [from |-> Max2(0, fileStart - p * c), to |-> Min2(c, fileEnd - p * c),
            offset |-> Max2(0, p * c - fileStart), file |-> i]]

\* C12: for every chunk length and list of files the constructor accepts, chunk
\* p of the overlap table holds, in file declaration order, exactly one record
\* (max(0, fileStart - p*c), min(c, fileEnd - p*c), max(0, p*c - fileStart))
\* for each file whose chunks floor(fileStart/c)..floor((fileEnd-1)/c) include
\* p, and nothing else; an offset left out is the previous file's offset plus
\* its length, 0 for the first file; lengths 15 and 15 under chunks of 10 give
\* chunk 1 the records (0,5,offset 10,A) and (5,10,offset 0,B).
C12_MapperResult ==
  \A n \in CallIds :
    BuiltMulti(calls[n]) =>
      LET st == calls[n].store[1]
          c == st.chunkLength
          fs == st.files
          args == calls[n].opts.files
      IN /\ Len(fs) = Len(args)
         /\ \A i \in 1..Len(fs) :
              /\ fs[i].length = args[i].length
              /\ fs[i].offset = IF args[i].offset # Nil THEN args[i].offset
                                ELSE IF i = 1 THEN 0
                                ELSE fs[i - 1].offset + fs[i - 1].length
         /\ DOMAIN st.chunkMap \subseteq 0..PastEnd(fs)
         /\ \A p \in 0..PastEnd(fs) : RecordsAt(st.chunkMap, p) = C12_Expected(c, fs, p)
         /\ (c = ExampleChunkLength /\ calls[n].opts = ExampleOpts) =>
              st.chunkMap[1] = << [from |-> 0, to |-> 5, offset |-> 10, file |-> 1],
                                  [from |-> 5, to |-> 10, offset |-> 0, file |-> 2] >>

C12_Witness ==
  \E n \in CallIds :
    /\ BuiltMulti(calls[n])
    /\ calls[n].chunkLength = ExampleChunkLength /\ calls[n].opts = ExampleOpts
    /\ Len(calls[n].store[1].chunkMap[1]) = 2
    /\ calls[n].store[1].files[2].offset = ExampleFileLength

\* the sum of to - from over the records of a list that reference file i
RECURSIVE C13_Sum(_, _)
C13_Sum(recs, i) ==
  IF recs = << >> THEN 0
  ELSE (IF Head(recs).file = i THEN Head(recs).to - Head(recs).from ELSE 0)
         + C13_Sum(Tail(recs), i)

\* the same sum over chunks 0..p of a chunk map
RECURSIVE C13_FileSum(_, _, _)
C13_FileSum(map, p, i) ==
  IF p < 0 THEN 0 ELSE C13_Sum(RecordsAt(map, p), i) + C13_FileSum(map, p - 1, i)

\* C13: in every store built over declared files, the chunk-local ranges of a
\* chunk's records cover exactly the part of the chunk that lies in a declared
\* file; in a contiguous layout they are pairwise disjoint and cover the whole
\* chunk (the last chunk up to its length); and for every file the records that
\* reference it have lengths that sum to the file's length and file ranges that
\* tile [0, length).
C13_Completeness ==
  \A n \in CallIds :
    BuiltMulti(calls[n]) =>
      LET st == calls[n].store[1]
          c == st.chunkLength
          fs == st.files
          recs(p) == RecordsAt(st.chunkMap, p)
          covered(p) == { x \in 0..(c - 1) :
                            \E k \in 1..Len(recs(p)) : recs(p)[k].from <= x /\ x < recs(p)[k].to }
          declared(p) == { x \in 0..(c - 1) :
                             \E i \in 1..Len(fs) :
                                fs[i].offset <= p * c + x /\ p * c + x < fs[i].offset + fs[i].length }
          contiguous == \A i \in 1..Len(fs) :
                           fs[i].offset = IF i = 1 THEN 0 ELSE fs[i - 1].offset + fs[i - 1].length
          chunkLen(p) == IF p = st.lastChunkIndex THEN st.lastChunkLength ELSE c
          places(i) == { pk \in (0..PastEnd(fs)) \X (1..Len(fs)) :
                           pk[2] <= Len(recs(pk[1])) /\ recs(pk[1])[pk[2]].file = i }
          range(pk) == LET r == recs(pk[1])[pk[2]]
                       IN { q \in 0..SumLengths(fs) : r.offset <= q /\ q < r.offset + r.to - r.from }
      IN /\ \A p \in 0..PastEnd(fs) : covered(p) = declared(p)
         /\ contiguous =>
              \A p \in 0..st.lastChunkIndex :
                 /\ covered(p) = 0..(chunkLen(p) - 1)
                 /\ \A j \in 1..Len(recs(p)), k \in 1..Len(recs(p)) :
                      j < k => recs(p)[j].to <= recs(p)[k].from
         /\ \A i \in 1..Len(fs) :
              /\ C13_FileSum(st.chunkMap, PastEnd(fs), i) = fs[i].length
              /\ UNION { range(pk) : pk \in places(i) } = 0..(fs[i].length - 1)
              /\ \A pk \in places(i), qk \in places(i) :
                   pk # qk => range(pk) \cap range(qk) = {}

C13_Witness ==
  \E n \in CallIds :
    /\ BuiltMulti(calls[n])
    /\ Len(calls[n].store[1].files) = 2
    /\ \A i \in 1..2 : calls[n].opts.files[i].offset = Nil
    /\ calls[n].store[1].lastChunkIndex >= 1
    /\ \E p \in DOMAIN calls[n].store[1].chunkMap : Len(calls[n].store[1].chunkMap[p]) = 2
    /\ \E p \in DOMAIN calls[n].store[1].chunkMap :
         \E k \in 1..Len(calls[n].store[1].chunkMap[p]) :
            calls[n].store[1].chunkMap[p][k].offset > 0

\* the least n with n * c >= len
C14_Ceil(len, c) ==
  CHOOSE n \in 0..len : n * c >= len /\ \A m \in 0..len : m * c >= len => n <= m

\* C14: a store built with chunk length c and finite total length L (the
\* `length` given, or the sum of the declared files' lengths) has lastChunkIndex
\* ceil(L / c) - 1 and lastChunkLength L mod c, or c when that is zero; a store
\* without total length has neither, so that no index is the last chunk's.
C14_LastChunk ==
  \A n \in CallIds :
    (calls[n].op = "new" /\ calls[n].store # << >> /\ calls[n].store[1].threw = "") =>
      LET st == calls[n].store[1]
          c == st.chunkLength
          o == calls[n].opts
          len == IF st.multi THEN SumLengths(o.files)
                 ELSE IF o.length = Nil THEN Infinity ELSE o.length
      IN /\ st.length = len
         /\ IF len # Infinity
            THEN /\ st.lastChunkIndex = C14_Ceil(len, c) - 1
                 /\ st.lastChunkLength = IF len % c = 0 THEN c ELSE len % c
            ELSE /\ st.lastChunkIndex = Undefined /\ st.lastChunkLength = Undefined
                 /\ \A index \in Indices : index # st.lastChunkIndex

C14_Witness ==
  \E n \in CallIds :
    /\ calls[n].op = "new" /\ calls[n].store # << >> /\ calls[n].store[1].threw = ""
    /\ calls[n].store[1].length # Infinity
    /\ calls[n].store[1].length % calls[n].store[1].chunkLength # 0
    /\ calls[n].store[1].lastChunkIndex >= 1
    /\ calls[n].store[1].lastChunkLength < calls[n].store[1].chunkLength

\* C15: the constructor throws when chunkLength is zero or left out, when
\* `files` is given and a file has no path, no length or length zero, and when
\* `files` is given and its lengths do not sum to a `length` that is given,
\* whatever the other options are, rootDir included.
C15_ConstructionFails ==
  \A n \in CallIds :
    (calls[n].op = "new" /\ calls[n].store # << >>) =>
      LET o == calls[n].opts
          fs == o.files
          badFile == \E i \in 1..Len(fs) :
                        fs[i].path = NoPath \/ fs[i].length = Nil \/ fs[i].length = 0
          conflict == /\ o.length # Nil
                      /\ \A i \in 1..Len(fs) : fs[i].length # Nil
                      /\ SumLengths(fs) # o.length
      IN (calls[n].chunkLength = 0 \/ (o.hasFiles /\ (badFile \/ conflict)))
           => calls[n].store[1].threw # ""

\* what a multi-file get of the range reads from chunk p of a built store whose
\* files hold the bytes of the stream
C20_Read(st, p, rangeFrom, rangeTo) ==
  LET targets == FilterTargets(st.chunkMap[p], rangeFrom, rangeTo)
  IN BlobOf([k \in 1..Len(targets) |->
        LET sub == GetSub(targets[k], rangeFrom, rangeTo)
            file == st.files[sub.file]
        IN [sub EXCEPT !.val = BlobSlice(StreamBytes(file.offset, file.length),
                                         sub.offset, sub.offset + sub.to - sub.from)]])

\* C20: in every store the constructor builds over declared files, explicit
\* offsets included, the records of each chunk are in ascending order of
\* chunk-local position, and the per-record reads of a multi-file get, put
\* together in record order, are the rangeTo - rangeFrom bytes at chunk-local
\* positions rangeFrom, rangeFrom + 1, ...
C20_AscendingOrder ==
  \A n \in CallIds :
    BuiltMulti(calls[n]) =>
      LET st == calls[n].store[1]
          c == st.chunkLength
          chunkLen(p) == IF p = st.lastChunkIndex THEN st.lastChunkLength ELSE c
      IN \A p \in DOMAIN st.chunkMap :
           /\ \A j \in 1..Len(st.chunkMap[p]), k \in 1..Len(st.chunkMap[p]) :
                j < k => st.chunkMap[p][j].to <= st.chunkMap[p][k].from
           /\ \A rangeFrom \in 0..c, rangeTo \in 0..c :
                (rangeFrom < rangeTo /\ rangeTo <= chunkLen(p) /\ p <= st.lastChunkIndex) =>
                   C20_Read(st, p, rangeFrom, rangeTo)
                     = StreamBytes(p * c + rangeFrom, rangeTo - rangeFrom)

\* C16: every put, get, close and destroy call has its callback invoked at most
\* once at any time, and exactly once when every step the call started has run.
C16_ExactlyOnce ==
  \A c \in CallIds :
    LET call == calls[c] IN
    call.op \in {"put", "get", "close", "destroy"} =>
      /\ Len(call.cbs) <= 1
      /\ (Settledcall(call) /\ AllSubsDone(call)) => Len(call.cbs) = 1

\* the write streams created on declared file f
StreamsOf(f) == { sid \in 1..Len(streams) : streams[sid].file = f }

\* C17: for each declared file at most one write stream is ever created,
\* whatever the interleaving of the puts, and once teardown has run to its end
\* every stream that was opened has been closed.
C17_StreamReuse ==
  /\ \A f \in 1..Len(files) : Cardinality(StreamsOf(f)) <= 1
  /\ \A c \in CallIds :
       (calls[c].op \in {"close", "destroy"} /\ calls[c].open /\ calls[c].td = "done") =>
          \A sid \in 1..Len(streams) :
             (streams[sid].st = "ok" /\ \A d \in CallIds : Settledcall(calls[d]) /\ AllSubsDone(calls[d]))
               => streams[sid].state = "closed"

\* C18: for each directory path the provider's getDirectoryHandle is called at
\* most once over the store's lifetime: the files of one subdirectory share one
\* resolution.
C18_DirectoryOnce ==
  \A d \in Dirs : Cardinality(DirectoryCalls(d)) <= 1

\* C19: once `closed` is true it stays true, and from then on no put or get,
\* in flight or new, starts a provider operation, and no entry is added to
\* this.chunks or to this.directoryMap.
C19_ClosedIsFinal ==
  [][closed =>
       /\ closed'
       /\ \A c \in CallIds :
            calls[c].op \in {"put", "get"} => calls'[c].io = calls[c].io
       /\ \A i \in Indices : chunks'[i] \in {0, chunks[i]}
       /\ \A d \in Dirs : directoryMap'[d] \in {0, directoryMap[d]}]_vars

\* C21: in a multi-file store, a get of a chunk that has overlap records whose
\* range is empty (rangeFrom = rangeTo) starts no provider operation, delivers
\* no error, and ends having delivered (null, empty buffer) once.
C21_EmptyRange ==
  \A g \in CallIds :
    LET call == calls[g] IN
    ( /\ call.op = "get" /\ Multi /\ call.open
      /\ BuildChunkMap(files)[call.index] # << >>
      /\ RangeFrom(call.off) = RangeTo(call.index, call.off, call.len) )
    => /\ call.io = 0 /\ ~call.threw
       /\ \A k \in 1..Len(call.cbs) : call.cbs[k] = Cb(Null, << >>)
       /\ Settledcall(call) => Len(call.cbs) = 1

====
